---- MODULE Spec2Model ----
(***************************************************************************)
(* Race-outcome simulation and position ranking of app/race_predictor.py:  *)
(* generate_simulated_race, calculate_race_positions and predict_podium,   *)
(* as called in sequence by api_server.get_race_prediction.                *)
(*                                                                         *)
(* Lap times are integers in units of 1e-4 s (900000 is 90.0 s), so that   *)
(* the multipliers 1.02 / 1.01 / 1.0 are exact and the ".3f" formatting of *)
(* the podium (milliseconds) is a real rounding.  A DataFrame is a record  *)
(* [columns, rows]; a competitor identifier is a record [t, v] whose t is  *)
(* the Python type of the value ("str" or "int").                          *)
(***************************************************************************)
EXTENDS Integers, Sequences, FiniteSets, TLC

VARIABLES
    pc,               \* "idle", or the last call: "fetched", "profiled", "simulated",
                      \* "supplied" (a lap table of the caller's) and their variants
    quicksort_ties,   \* what this build's unstable sort does with equal keys
    perfect_profile,  \* arguments of generate_simulated_race
    driver_name_map,
    num_laps,
    simulated_df,     \* the lap table
    lap_multipliers,  \* the lap_multiplier local of each appended record
    positions_df,     \* result of calculate_race_positions
    podium_df,        \* result of predict_podium
    raised,           \* the exception each call ended with, "none" if it returned
    done,             \* the functions already called on simulated_df
    historical_races, \* argument of build_perfect_lap_profile
    profile_result,   \* result of build_perfect_lap_profile
    weights_applied,  \* the year_weight local of each season processed
    rerun_df,         \* result of a second generate_simulated_race call, same arguments
    renamed_run,      \* the tables of the same race with other display metadata
    positions_again,  \* result of a second calculate_race_positions call
    drivers_data,     \* arguments of preprocess_race_frames
    sample_rate,
    frames,           \* results of preprocess_race_frames
    num_frames,
    telemetry_cache,  \* _telemetry_cache of the server process
    threads,          \* where each thread is inside get_animation_telemetry
    warmed,           \* how many sessions_to_warm the warm-up thread is through
    calls             \* how many requests the handler thread has taken

history_vars == <<historical_races, profile_result, weights_applied>>

frame_vars == <<drivers_data, sample_rate, frames, num_frames>>

telemetry_vars == <<telemetry_cache, threads, warmed, calls>>

\* the state of the race prediction request
race_vars == <<perfect_profile, driver_name_map, num_laps, simulated_df, lap_multipliers,
               positions_df, podium_df, raised, done, history_vars, rerun_df,
               renamed_run, positions_again>>

vars == <<pc, quicksort_ties, race_vars, frame_vars, telemetry_vars>>

-----------------------------------------------------------------------------
(* Bounds of the model *)

\* largest num_laps a request asks for
MaxLaps == 7

\* largest number of rows (competitors x laps) of a generated race
MaxSimRows == 7

\* largest number of rows of a lap table handed directly to the ranking functions
MaxTableRows == 4

\* largest number of lap records, over all seasons, of a history
MaxHistoryLaps == 3

\* largest number of rows of a race that is generated a second time
MaxRerunRows == 3

\* largest number of telemetry points of a driver, and largest sample_rate
MaxPoints == 3
MaxSampleRate == 3

\* largest number of requests the handler thread takes
MaxRequests == 2

-----------------------------------------------------------------------------
(* Values *)

\* float('nan'): what Series.min() gives on an empty selection
NaN == 0 - 1

StrId(n) == [t |-> "str", v |-> n]
IntId(n) == [t |-> "int", v |-> n]

\* str(x) of a competitor identifier: the text of the number, typed str
Str(d) == [t |-> "str", v |-> d.v]

\* the characters of a competitor identifier, for f-strings and display names
KeyText(d) == <<"1", "2", "3">>[d.v]

\* f"DRV{driver_num}"
DrvLabel(d) == <<"DRV1", "DRV2", "DRV3">>[d.v]

\* keys of a profile map: build_perfect_lap_profile stores str(driver_num)
ProfileKeys == {StrId(1), StrId(2)}

BestLaps == {900000, 905000}
StdDevs == {0, 20000}

\* a profile map is a dict: a sequence of entries with distinct keys, in insertion order
ProfileEntries == [driver_number : ProfileKeys, best_lap : BestLaps, std_dev : StdDevs]

ProfileMaps ==
    {<<>>}
    \cup {<<e>> : e \in ProfileEntries}
    \cup {p \in ProfileEntries \X ProfileEntries :
                p[1].driver_number # p[2].driver_number}

NoNames == [d \in {} |-> [name |-> "", team |-> ""]]
SomeNames == [d \in {StrId(1)} |-> [name |-> "VER", team |-> "Red Bull"]]

\* driver_name_map, as get_race_prediction builds it: str keys -> name and team
NameMaps == {NoNames, SomeNames}

\* another driver_name_map, with metadata for every competitor
OtherNames ==
    [d \in ProfileKeys |-> IF d.v = 1 THEN [name |-> "HAM", team |-> "Mercedes"]
                                     ELSE [name |-> "LEC", team |-> "Ferrari"]]

\* the maps the race is generated with a second time
OtherNameMaps == NameMaps \cup {OtherNames}

SimColumns == {"driver_number", "driver_name", "lap_number", "lap_duration", "simulated"}
PositionColumns == {"lap_number", "driver_number", "position", "lap_time"}
PodiumColumns == {"Position", "Driver #", "Driver", "Team", "Best Lap", "Final Lap Time"}

\* pd.DataFrame() and pd.DataFrame([]): no columns, no rows
EmptyFrame == [columns |-> {}, rows |-> <<>>]

\* pd.DataFrame(list of dicts)
DataFrame(records, cols) ==
    IF records = <<>> THEN EmptyFrame ELSE [columns |-> cols, rows |-> records]

\* DataFrame.empty: some axis has length 0
IsEmpty(df) == df.columns = {} \/ df.rows = <<>>

Min(S) == CHOOSE x \in S : \A y \in S : x <= y
Max(S) == CHOOSE x \in S : \A y \in S : x >= y

\* Series.min(): NaN on an empty selection
SeriesMin(S) == IF S = {} THEN NaN ELSE Min(S)

\* f"{x:.3f}": seconds rounded to milliseconds (half to even), "nan" for NaN
Format3f(x) ==
    IF x = NaN THEN NaN
    ELSE LET q == x \div 10
             r == x % 10
         IN IF r > 5 \/ (r = 5 /\ q % 2 = 1) THEN q + 1 ELSE q

\* Series.unique(): the distinct values in order of first appearance
Unique(s) ==
    LET F[i \in 0..Len(s)] ==
            IF i = 0 THEN <<>>
            ELSE IF \E j \in 1..(i - 1) : s[j] = s[i] THEN F[i - 1]
                 ELSE Append(F[i - 1], s[i])
    IN F[Len(s)]

Column(df, c) == [i \in 1..Len(df.rows) |-> df.rows[i][c]]

-----------------------------------------------------------------------------
(* build_perfect_lap_profile *)

\* float('inf'): the best_lap of a fresh accumulator
Inf == 0 - 2

\* min(a, b) of Python, a possibly float('inf')
PyMin(a, b) == IF a = Inf THEN b ELSE IF b < a THEN b ELSE a

Abs(x) == IF x < 0 THEN 0 - x ELSE x

RECURSIVE GCD(_, _)
GCD(a, b) == IF b = 0 THEN Abs(a) ELSE GCD(b, a % b)

RECURSIVE SetGCD(_)
SetGCD(S) ==
    IF S = {} THEN 0
    ELSE LET x == CHOOSE y \in S : TRUE IN GCD(x, SetGCD(S \ {x}))

\* a float that is the quotient of two integers, kept exactly: num / den
Rat(n, d) == LET g == GCD(n, d) IN [num |-> n \div g, den |-> d \div g]

RECURSIVE SeqSum(_)
SeqSum(s) == IF s = <<>> THEN 0 ELSE Head(s) + SeqSum(Tail(s))

\* the numbers of a sequence in ascending order
SortedNumbers(s) ==
    LET Rank(i) == 1 + Cardinality({j \in 1..Len(s) :
                                       s[j] < s[i] \/ (s[j] = s[i] /\ j < i)})
    IN [p \in 1..Len(s) |-> s[CHOOSE i \in 1..Len(s) : Rank(i) = p]]

\* float(np.mean(weighted_times))
NpMean(x) == Rat(SeqSum(x), Len(x))

\* float(np.median(weighted_times)): the middle value, or the mean of the two
\* middle values
NpMedian(x) ==
    LET a == SortedNumbers(x)
        h == Len(x) \div 2
    IN IF Len(x) % 2 = 1 THEN Rat(a[h + 1], 1) ELSE Rat(a[h] + a[h + 1], 2)

\* float(np.std(weighted_times)), the population standard deviation
\* sqrt(sum((x_i - mean)^2) / n), kept exactly as scale * sqrt(radicand):
\* with S the sum and d_i = (n * x_i - S) / scale, it is scale * sqrt(sum(d_i^2) / n^3)
NpStd(x) ==
    LET n == Len(x)
        S == SeqSum(x)
        dev == [i \in 1..n |-> (n * x[i]) - S]
        g == SetGCD({dev[i] : i \in 1..n})
    IN IF g = 0 THEN [scale |-> 0, radicand |-> Rat(0, 1)]
       ELSE [scale |-> g,
             radicand |-> Rat(SeqSum([i \in 1..n |-> (dev[i] \div g) * (dev[i] \div g)]),
                              n * n * n)]

\* the years fetch_historical_austin_races asks for
Years == {2022, 2023, 2024, 2025}

\* mutant of YearWeight: a season missing from the table gets the highest weight
YearWeightDefaultHigh(year) ==
    CASE year = 2023 -> 1
      [] year = 2024 -> 2
      [] year = 2025 -> 3
      [] OTHER -> 4

\* mutant of YearWeight: a season missing from the table gets no weight
YearWeightDefaultZero(year) ==
    CASE year = 2023 -> 1
      [] year = 2024 -> 2
      [] year = 2025 -> 3
      [] OTHER -> 0

\* year_weights.get(year, 1.0)
YearWeight(year) ==
    CASE year = 2023 -> 1
      [] year = 2024 -> 2
      [] year = 2025 -> 3
      [] OTHER -> 1

RaceDataKeys == {"laps", "session_key", "meeting_key"}
LapColumns == {"driver_number", "lap_duration"}

\* mutant of ValidLaps: the null durations are filled with 0 instead of dropped
ValidLapsFillZero(laps_df) ==
    [i \in 1..Len(laps_df.rows) |->
        IF laps_df.rows[i].lap_duration = NaN
        THEN [laps_df.rows[i] EXCEPT !.lap_duration = 0]
        ELSE laps_df.rows[i]]

\* laps_df[laps_df["lap_duration"].notna()]
ValidLaps(laps_df) == SelectSeq(laps_df.rows, LAMBDA r : r.lap_duration # NaN)

\* driver_laps["lap_duration"].values of one driver
LapTimes(valid_laps, driver_num) ==
    LET driver_laps == SelectSeq(valid_laps, LAMBDA r : r.driver_number = driver_num)
    IN [i \in 1..Len(driver_laps) |-> driver_laps[i].lap_duration]

\* mutant of WeightedLapTimes: the season weight is not applied
WeightedLapTimesUnweighted(lap_times, year_weight) == lap_times

\* [(t * year_weight) for t in lap_times]
WeightedLapTimes(lap_times, year_weight) ==
    [i \in 1..Len(lap_times) |-> lap_times[i] * year_weight]

\* mutant of SeasonBest: the season's best lap is taken from the weighted times
SeasonBestWeighted(lap_times, year_weight) ==
    Min({lap_times[i] * year_weight : i \in 1..Len(lap_times)})

\* lap_times.min()
SeasonBest(lap_times, year_weight) == Min({lap_times[i] : i \in 1..Len(lap_times)})

\* the position of a key in a dict kept as a sequence of entries, 0 if absent
IndexOf(dict, key) ==
    IF \E i \in 1..Len(dict) : dict[i].driver_number = key
    THEN CHOOSE i \in 1..Len(dict) : dict[i].driver_number = key
    ELSE 0

\* dict[key] = entry: a new key is appended, an existing key keeps its place
DictSet(dict, entry) ==
    LET i == IndexOf(dict, entry.driver_number)
    IN IF i = 0 THEN Append(dict, entry) ELSE [dict EXCEPT ![i] = entry]

\* mutant of YearsRaced: the year is appended once per valid lap
YearsRacedPerLap(years_raced, year, lap_times) ==
    years_raced \o [i \in 1..Len(lap_times) |-> year]

\* driver_performances[driver_num]["years_raced"].append(year)
YearsRaced(years_raced, year, lap_times) == Append(years_raced, year)

\* the body of the driver loop: driver_performances after one driver of one season
AccumulateDriver(perfs, year, valid_laps, driver_num) ==
    LET i == IndexOf(perfs, driver_num)
        perf == IF i = 0
                THEN [driver_number |-> driver_num, best_lap |-> Inf,
                      weighted_lap_times |-> <<>>, years_raced |-> <<>>]
                ELSE perfs[i]
        lap_times == LapTimes(valid_laps, driver_num)
        year_weight == YearWeight(year)
    IN DictSet(perfs,
               [driver_number      |-> driver_num,
                best_lap           |-> PyMin(perf.best_lap, SeasonBest(lap_times, year_weight)),
                weighted_lap_times |-> perf.weighted_lap_times
                                          \o WeightedLapTimes(lap_times, year_weight),
                years_raced        |-> YearsRaced(perf.years_raced, year, lap_times)])

RECURSIVE AccumulateDrivers(_, _, _, _)
AccumulateDrivers(perfs, year, valid_laps, drivers) ==
    IF drivers = <<>> THEN perfs
    ELSE AccumulateDrivers(AccumulateDriver(perfs, year, valid_laps, Head(drivers)),
                           year, valid_laps, Tail(drivers))

\* race_data["laps"] or laps_df["lap_duration"] raises KeyError when the key or the
\* column is missing
SeasonRaises(race_data) ==
    \/ "laps" \notin race_data.keys
    \/ "lap_duration" \notin race_data.laps.columns

RECURSIVE AccumulateSeasons(_, _)
\* the season loop: [raised, value] with value the driver_performances dict
AccumulateSeasons(perfs, seasons) ==
    IF seasons = <<>> THEN [raised |-> "none", value |-> perfs]
    ELSE LET race_data == Head(seasons)
         IN IF SeasonRaises(race_data) THEN [raised |-> "KeyError", value |-> <<>>]
            ELSE LET valid_laps == ValidLaps(race_data.laps)
                     drivers == Unique([i \in 1..Len(valid_laps) |->
                                           valid_laps[i].driver_number])
                 IN AccumulateSeasons(
                        AccumulateDrivers(perfs, race_data.year, valid_laps, drivers),
                        Tail(seasons))

\* perfect_profile[str(driver_num)] = {...}
ProfileOf(perf) ==
    [driver_number |-> Str(perf.driver_number),
     best_lap      |-> perf.best_lap,
     average_lap   |-> NpMean(perf.weighted_lap_times),
     std_dev       |-> NpStd(perf.weighted_lap_times),
     median_lap    |-> NpMedian(perf.weighted_lap_times),
     races_count   |-> Len(perf.years_raced)]

RECURSIVE Finalize(_, _)
Finalize(profile, perfs) ==
    IF perfs = <<>> THEN profile
    ELSE Finalize(DictSet(profile, ProfileOf(Head(perfs))), Tail(perfs))

\* [raised, value]: the profile dict, a sequence of entries in insertion order
BuildPerfectLapProfile(historical) ==
    IF historical = <<>> THEN [raised |-> "none", value |-> <<>>]
    ELSE LET acc == AccumulateSeasons(<<>>, historical)
         IN IF acc.raised # "none" THEN acc
            ELSE [raised |-> "none", value |-> Finalize(<<>>, acc.value)]

\* the weight the season loop applied to each season it processed
WeightsApplied(historical) ==
    [i \in 1..Len(historical) |->
        [year |-> historical[i].year, weight |-> YearWeight(historical[i].year)]]

-----------------------------------------------------------------------------
(* generate_simulated_race *)

\* mutant of NormalDraws: a zero scale still spreads the draws
NormalDrawsSpreadAtZero(loc, scale) ==
    IF scale = NaN THEN {NaN}
    ELSE IF scale < 0 THEN {}
    ELSE {loc - (3 * scale) - 10000, loc, loc + scale + 10000}

\* np.random.normal(loc, scale): scale = 0 gives loc; otherwise any real, sampled
\* here below, near and above loc
\* a NaN scale gives NaN; a negative scale raises ValueError: no value comes back
NormalDraws(loc, scale) ==
    IF scale = NaN THEN {NaN}
    ELSE IF scale < 0 THEN {}
    ELSE IF scale = 0 THEN {loc}
    ELSE {loc - (3 * scale), loc - (scale \div 2), loc + scale}

\* mutant of LapMultiplier: the tail window is tested before the first lap
LapMultiplierTailFirst(lap_num, n) ==
    IF lap_num > n - 5 THEN 101
    ELSE IF lap_num = 1 THEN 102
    ELSE 100

\* mutant of LapMultiplier: the tail window only exists in races of more than 5 laps
LapMultiplierLongRaceTail(lap_num, n) ==
    IF lap_num = 1 THEN 102
    ELSE IF n > 5 /\ lap_num > n - 5 THEN 101
    ELSE 100

\* the lap multiplier in percent: first lap, then the last five laps, else none
LapMultiplier(lap_num, n) ==
    IF lap_num = 1 THEN 102
    ELSE IF lap_num > n - 5 THEN 101
    ELSE 100

\* mutant of ClampLap: the floor is not applied
ClampLapMissing(lap_time, best_lap) == lap_time

\* max(lap_time, best_lap): can't be faster than best
\* (best_lap > nan is False, so a NaN lap_time comes through)
ClampLap(lap_time, best_lap) ==
    IF lap_time # NaN /\ best_lap > lap_time THEN best_lap ELSE lap_time

\* the display name of a competitor: the map's name, else the key itself
DriverName(driver_num, names) ==
    IF driver_num \in DOMAIN names THEN names[driver_num].name
    ELSE KeyText(driver_num)

\* one iteration of the lap loop: the record appended to simulated_data
SimulatedLap(profile, names, lap_num, n, variance) ==
    LET best_lap == profile.best_lap
        lap_time == IF variance = NaN THEN NaN
                    ELSE ((best_lap * LapMultiplier(lap_num, n)) \div 100) + variance
    IN [driver_number |-> profile.driver_number,
        driver_name   |-> DriverName(profile.driver_number, names),
        lap_number    |-> lap_num,
        lap_duration  |-> ClampLap(lap_time, best_lap),
        simulated     |-> TRUE]

\* mutant of LapCount: range(1, num_laps) drops the last lap
LapCountShort(n) == IF n > 1 THEN n - 1 ELSE 0

\* range(1, num_laps + 1) has this many elements
LapCount(n) == IF n > 0 THEN n ELSE 0

\* the profile entry / the lap of the k-th appended record (drivers outer, laps inner)
EntryOf(k, n) == ((k - 1) \div n) + 1
LapOf(k, n) == ((k - 1) % n) + 1

\* the scale of the k-th draw: std_dev * 0.5
ScaleOf(profile, k, n) ==
    LET std_dev == profile[EntryOf(k, n)].std_dev
    IN IF std_dev = NaN THEN NaN ELSE std_dev \div 2

RECURSIVE DrawSeqs(_)
\* every sequence of draws, one per (driver, lap), given the scale of each
DrawSeqs(scales) ==
    IF scales = <<>> THEN {<<>>}
    ELSE {<<v>> \o rest : v \in NormalDraws(0, Head(scales)),
                          rest \in DrawSeqs(Tail(scales))}

\* the exception the call ends with: np.random.normal raises ValueError at the
\* first draw whose scale is negative
GenerateRaises(profile, n) ==
    IF /\ LapCount(n) > 0
       /\ \E i \in 1..Len(profile) : profile[i].std_dev # NaN /\ profile[i].std_dev < 0
    THEN "ValueError" ELSE "none"

GenerateSimulatedRace(profile, names, n, draws) ==
    IF profile = <<>> THEN EmptyFrame
    ELSE DataFrame([k \in 1..(Len(profile) * LapCount(n)) |->
                       SimulatedLap(profile[EntryOf(k, n)], names, LapOf(k, n), n, draws[k])],
                   SimColumns)

-----------------------------------------------------------------------------
(* DataFrame.sort_values("lap_duration") *)

\* what an unstable sort may do with rows of equal key: keep them in input order,
\* or leave them in the opposite order
TieOrders == {"input order", "reversed"}

\* ascending by lap_duration; rows of equal duration in input order (a stable sort)
\* or in the opposite order
SortedBy(s, ties) ==
    LET Before(j, i) ==
            \/ s[j].lap_duration < s[i].lap_duration
            \/ /\ s[j].lap_duration = s[i].lap_duration
               /\ IF ties = "input order" THEN j < i ELSE j > i
        Rank(i) == 1 + Cardinality({j \in 1..Len(s) : Before(j, i)})
    IN [p \in 1..Len(s) |-> s[CHOOSE i \in 1..Len(s) : Rank(i) = p]]

\* mutant of SortValues: sort_values(..., ascending=False)
SortValuesDescending(s) ==
    LET a == SortedBy(s, quicksort_ties)
    IN [i \in 1..Len(a) |-> a[Len(a) + 1 - i]]

\* sort_values with the default kind="quicksort": ascending, but not stable; the
\* order of rows with equal keys is whatever the build's sort leaves, the same on
\* every call with the same rows
SortValues(s) == SortedBy(s, quicksort_ties)

-----------------------------------------------------------------------------
(* calculate_race_positions *)

\* simulated_df[simulated_df["lap_number"] == lap]
RowsOfLap(df, lap) == SelectSeq(df.rows, LAMBDA r : r.lap_number = lap)

\* mutant of PositionRange: range(len(lap_data)) numbers the rows from 0
PositionRangeFromZero(k) == [i \in 1..k |-> i - 1]

\* range(1, len(lap_data) + 1)
PositionRange(k) == [i \in 1..k |-> i]

\* the records appended for one lap: the lap's rows, sorted, numbered from 1
LapPositions(lap, lap_data) ==
    LET sorted == SortValues(lap_data)
        position == PositionRange(Len(sorted))
    IN [i \in 1..Len(sorted) |->
           [lap_number    |-> lap,
            driver_number |-> sorted[i].driver_number,
            position      |-> position[i],
            lap_time      |-> sorted[i].lap_duration]]

\* mutant of FrameAfterPositions: the position column is written into the input
FrameAfterPositionsInPlace(df) ==
    IF df.rows = <<>> THEN df
    ELSE [columns |-> df.columns \cup {"position"}, rows |-> df.rows]

\* simulated_df after the call: lap_data is a .copy() of the selected rows, and the
\* position column is assigned to that copy
FrameAfterPositions(df) == df

\* the laps the loop visits, in the order it visits them
LapsVisited(df) == Unique(Column(df, "lap_number"))

RECURSIVE PositionRecords(_, _)
PositionRecords(df, laps) ==
    IF laps = <<>> THEN <<>>
    ELSE LET lap == Head(laps)
         IN LapPositions(lap, RowsOfLap(df, lap))
            \o PositionRecords(df, Tail(laps))

\* [raised, value]: simulated_df["lap_number"] raises KeyError on a frame without
\* that column; otherwise the frame of the appended records
CalculateRacePositions(df) ==
    IF "lap_number" \notin df.columns
    THEN [raised |-> "KeyError", value |-> EmptyFrame]
    ELSE [raised |-> "none",
          value  |-> DataFrame(PositionRecords(df, LapsVisited(df)), PositionColumns)]

-----------------------------------------------------------------------------
(* predict_podium *)

\* mutant of FinalLap: the first lap is taken for the final one
FinalLapFirst(df) == Min({df.rows[i].lap_number : i \in 1..Len(df.rows)})

\* simulated_df["lap_number"].max()
FinalLap(df) == Max({df.rows[i].lap_number : i \in 1..Len(df.rows)})

\* mutant of Head3: head(2)
Head2(s) == SubSeq(s, 1, IF Len(s) < 2 THEN Len(s) ELSE 2)

\* final_results.head(3)
Head3(s) == SubSeq(s, 1, IF Len(s) < 3 THEN Len(s) ELSE 3)

\* simulated_df[simulated_df["driver_number"] == driver_num]["lap_duration"].min()
BestLapOf(df, driver_num) ==
    SeriesMin({df.rows[i].lap_duration :
                  i \in {j \in 1..Len(df.rows) : df.rows[j].driver_number = driver_num}})

\* the label of the idx-th entry: medal and f"P{idx}"
PositionLabel(idx) == <<"P1", "P2", "P3">>[idx]

\* the record appended for the idx-th row of the top three;
\* DriverNum is the column "Driver #"
PodiumEntry(df, names, idx, row) ==
    LET driver_num == Str(row.driver_number)
    IN [Position     |-> PositionLabel(idx),
        DriverNum    |-> driver_num,
        Driver       |-> IF driver_num \in DOMAIN names THEN names[driver_num].name
                         ELSE DrvLabel(driver_num),
        Team         |-> IF driver_num \in DOMAIN names THEN names[driver_num].team
                         ELSE "Unknown",
        BestLap      |-> Format3f(BestLapOf(df, driver_num)),
        FinalLapTime |-> Format3f(row.lap_duration)]

\* mutant of PredictPodium: only competitors with display metadata are ranked
PredictPodiumNamedOnly(df, names) ==
    IF IsEmpty(df) THEN EmptyFrame
    ELSE LET final_lap == FinalLap(df)
             named == SelectSeq(RowsOfLap(df, final_lap),
                                LAMBDA r : Str(r.driver_number) \in DOMAIN names)
             top == Head3(SortValues(named))
         IN DataFrame([idx \in 1..Len(top) |-> PodiumEntry(df, names, idx, top[idx])],
                      PodiumColumns)

PredictPodium(df, names) ==
    IF IsEmpty(df) THEN EmptyFrame
    ELSE LET final_lap == FinalLap(df)
             final_results == SortValues(RowsOfLap(df, final_lap))
             top == Head3(final_results)
         IN DataFrame([idx \in 1..Len(top) |-> PodiumEntry(df, names, idx, top[idx])],
                      PodiumColumns)

-----------------------------------------------------------------------------
(* preprocess_race_frames *)

\* min(telemetry_idx, len(telemetry) - 1), as a 0-based index
PointIdx(telemetry_idx, telemetry) ==
    IF telemetry_idx < Len(telemetry) - 1 THEN telemetry_idx ELSE Len(telemetry) - 1

\* mutant of HasPoint: a driver past the end of its telemetry is left out of the frame
HasPointStrict(telemetry_idx, telemetry) == telemetry_idx < Len(telemetry)

\* if point_idx >= 0 and point_idx < len(telemetry)
HasPoint(telemetry_idx, telemetry) ==
    LET point_idx == PointIdx(telemetry_idx, telemetry)
    IN point_idx >= 0 /\ point_idx < Len(telemetry)

\* frame_data[driver_num] = {...}: the fields of the point and of the driver
FrameEntry(driver_data, point) ==
    [driver_num |-> driver_data.driver_num,
     x          |-> point.x,
     lap        |-> point.lapNumber,
     code       |-> driver_data.code]

\* the body of the frame loop: frame_data, a dict in the order of drivers_data
FrameData(data, frame_idx, rate) ==
    LET telemetry_idx == frame_idx * rate
        shown == SelectSeq(data, LAMBDA d : HasPoint(telemetry_idx, d.telemetry))
    IN [i \in 1..Len(shown) |->
           FrameEntry(shown[i],
                      shown[i].telemetry[PointIdx(telemetry_idx, shown[i].telemetry) + 1])]

\* max(len(data["telemetry"]) for data in drivers_data.values())
MaxLength(data) == Max({Len(data[i].telemetry) : i \in 1..Len(data)})

\* mutant of NumFrames: the last, partial group of points gets a frame of its own
NumFramesCeiling(max_length, rate) == (max_length + rate - 1) \div rate

\* max_length // sample_rate
NumFrames(max_length, rate) == max_length \div rate

\* (frames, num_frames): frame_idx runs over range(num_frames), from 0
PreprocessRaceFrames(data, rate) ==
    LET total == NumFrames(MaxLength(data), rate)
    IN [frames |-> [f \in 1..total |-> FrameData(data, f - 1, rate)],
        num_frames |-> total]

-----------------------------------------------------------------------------
(* get_animation_telemetry and its cache *)

\* None, as a value next to the response dicts
None == [none |-> TRUE]

\* the sessions warm_cache asks for, in its order
sessions_to_warm == <<"9662", "9636", "9635">>

\* keys of SESSION_KEY_MAPPING that are asked for, and a key that is not in it
MappedKeys == {"9662", "9636", "9635"}
UnknownKey == "0000"
SessionKeys == MappedKeys \cup {UnknownKey}

\* {"drivers": {}, "session_key": session_key, "data_points": 0}
EmptyResult(session_key) ==
    [drivers |-> {}, session_key |-> session_key, data_points |-> 0]

\* JSONResponse(status_code=500, ...)
ErrorResponse == [status_code |-> 500]

\* the drivers of a session whose position data made it into drivers_data: a driver
\* whose pos_data is missing or empty, or whose processing raises, is skipped
DriverSets == {{}, {"44"}}

\* the response built from the drivers that were kept, one telemetry point each
Response(session_key, kept) ==
    [drivers |-> kept, session_key |-> session_key, data_points |-> Cardinality(kept)]

\* how one run of the body after the cache check can end: the session is missing or
\* has no drivers, something raises, or a response is built
LoadOutcomes(session_key) ==
    {[kind |-> "empty", value |-> EmptyResult(session_key)],
     [kind |-> "error", value |-> ErrorResponse]}
    \cup {[kind |-> "response", value |-> Response(session_key, kept)] : kept \in DriverSets}

\* _get_cached_telemetry: _telemetry_cache.get(session_key)
GetCachedTelemetry(cache, session_key) == cache[session_key]

\* mutant of SetCachedTelemetry: the first stored value is kept (setdefault)
SetCachedTelemetryOnce(cache, session_key, telemetry_data) ==
    IF cache[session_key] = None
    THEN [cache EXCEPT ![session_key] = telemetry_data]
    ELSE cache

\* _set_cached_telemetry: _telemetry_cache[session_key] = telemetry_data
SetCachedTelemetry(cache, session_key, telemetry_data) ==
    [cache EXCEPT ![session_key] = telemetry_data]

\* the warm-up thread and a request handler of the thread pool
Threads == {"warm-up", "handler"}

\* a thread outside get_animation_telemetry
Outside == [at |-> "outside", session_key |-> "", response |-> None]

-----------------------------------------------------------------------------
(* The state machine *)

\* competitor identifiers of a lap table handed in by a caller
TableDrivers == {StrId(1), IntId(2)}
TableLaps == {1, 2}
TableDurations == {900000, 900006}

TableRows ==
    {[driver_number |-> d, driver_name |-> KeyText(d), lap_number |-> l,
      lap_duration |-> t, simulated |-> TRUE] :
        d \in TableDrivers, l \in TableLaps, t \in TableDurations}

\* lap records of the fetched seasons: driver_number as the data source gives it
\* (an integer), lap_duration a time or null
HistoryDrivers == {IntId(1), IntId(2)}
HistoryDurations == {900000, 905000, NaN}

HistoryLaps ==
    [year : Years, driver_number : HistoryDrivers, lap_duration : HistoryDurations]

\* the dict {year: {"laps": laps_df, ...}} of the lap records: the seasons in order
\* of first appearance, each with its own records in order
GroupSeasons(laps) ==
    LET years == Unique([i \in 1..Len(laps) |-> laps[i].year])
        RowsOf(y) == SelectSeq(laps, LAMBDA r : r.year = y)
    IN [s \in 1..Len(years) |->
           [year |-> years[s],
            keys |-> RaceDataKeys,
            laps |-> [columns |-> LapColumns,
                      rows |-> [i \in 1..Len(RowsOf(years[s])) |->
                                   [driver_number |-> RowsOf(years[s])[i].driver_number,
                                    lap_duration  |-> RowsOf(years[s])[i].lap_duration]]]]]

\* the lap records come one season after the other, as the fetch collects them
SeasonContiguous(laps) ==
    \A i, j \in 1..Len(laps) :
        (i < j /\ laps[i].year = laps[j].year) =>
            \A m \in i..j : laps[m].year = laps[i].year

DamageKinds == {"no lap table", "no lap_duration column"}

\* the history with season i damaged
Damaged(historical, i, kind) ==
    [historical EXCEPT ![i] =
        IF kind = "no lap table"
        THEN [@ EXCEPT !.keys = @ \ {"laps"}]
        ELSE [@ EXCEPT !.laps = [columns |-> {"driver_number"}, rows |-> @.rows]]]

\* profile maps with a std_dev that is negative or NaN in some entry
GivenStdDevs == {0 - 20000, NaN}
GivenProfileEntries ==
    [driver_number : ProfileKeys, best_lap : BestLaps, std_dev : StdDevs \cup GivenStdDevs]
GivenProfileMaps ==
    {<<e>> : e \in {g \in GivenProfileEntries : g.std_dev \in GivenStdDevs}}
    \cup {p \in GivenProfileEntries \X GivenProfileEntries :
                /\ p[1].driver_number # p[2].driver_number
                /\ \E i \in 1..2 : p[i].std_dev \in GivenStdDevs}

\* lap records in which one competitor number comes as an integer and as text
MixedDrivers == {IntId(1), StrId(1)}
MixedHistoryLaps ==
    [year : Years, driver_number : MixedDrivers, lap_duration : HistoryDurations]

\* the tables of a race that was not generated
NoRun == [names |-> NoNames, simulated_df |-> EmptyFrame, positions_df |-> EmptyFrame,
          podium_df |-> EmptyFrame]

\* telemetry points: a position and the lap it was taken on
Points == [x : {0, 1}, lapNumber : {1}]

\* the drivers of a telemetry set, with their codes
FrameDrivers == <<[driver_num |-> "1", code |-> "VER"], [driver_num |-> "44", code |-> "HAM"]>>

\* every telemetry of up to n points
Telemetries(n) == UNION {[1..k -> Points] : k \in 0..n}

Init ==
    /\ pc = "idle"
    /\ quicksort_ties \in TieOrders
    /\ perfect_profile = <<>>
    /\ driver_name_map = NoNames
    /\ num_laps = 0
    /\ simulated_df = EmptyFrame
    /\ lap_multipliers = <<>>
    /\ positions_df = EmptyFrame
    /\ podium_df = EmptyFrame
    /\ raised = "none"
    /\ done = {}
    /\ historical_races = <<>>
    /\ profile_result = <<>>
    /\ weights_applied = <<>>
    /\ rerun_df = EmptyFrame
    /\ renamed_run = NoRun
    /\ positions_again = EmptyFrame
    /\ drivers_data = <<>>
    /\ sample_rate = 5
    /\ frames = <<>>
    /\ num_frames = 0
    /\ telemetry_cache = [k \in SessionKeys |-> None]
    /\ threads = [t \in Threads |-> Outside]
    /\ warmed = 0
    /\ calls = 0

\* get_race_prediction calls fetch_historical_austin_races(): the seasons that
\* could be fetched, each with its lap table
fetch_historical_austin_races ==
    /\ pc = "idle"
    /\ \E k \in 0..MaxHistoryLaps :
          \E laps \in [1..k -> HistoryLaps] :
             /\ SeasonContiguous(laps)
             /\ historical_races' = GroupSeasons(laps)
    /\ pc' = "fetched"
    /\ UNCHANGED <<quicksort_ties, perfect_profile, driver_name_map, num_laps, raised,
                   simulated_df, lap_multipliers, positions_df, podium_df, done, rerun_df, renamed_run, positions_again,
                   frame_vars, telemetry_vars,
                   profile_result, weights_applied>>

\* get_race_prediction calls build_perfect_lap_profile(historical_races)
build_perfect_lap_profile ==
    /\ pc \in {"fetched", "fetched mixed ids"}
    /\ LET r == BuildPerfectLapProfile(historical_races)
       IN /\ profile_result' = r.value
          /\ raised' = r.raised
    /\ weights_applied' = WeightsApplied(historical_races)
    /\ pc' = IF pc = "fetched" THEN "profiled" ELSE "profiled mixed ids"
    /\ UNCHANGED <<quicksort_ties, perfect_profile, driver_name_map, num_laps,
                   simulated_df, lap_multipliers, positions_df, podium_df, done, rerun_df, renamed_run, positions_again,
                   frame_vars, telemetry_vars,
                   historical_races>>

\* build_perfect_lap_profile on a history one of whose seasons lacks its lap table
\* or its lap_duration column
build_from_damaged_history ==
    /\ pc = "fetched"
    /\ \E i \in 1..Len(historical_races), kind \in DamageKinds :
          LET historical == Damaged(historical_races, i, kind)
              r == BuildPerfectLapProfile(historical)
          IN /\ historical_races' = historical
             /\ profile_result' = r.value
             /\ raised' = r.raised
    /\ weights_applied' = <<>>
    /\ pc' = "profiled from damaged history"
    /\ UNCHANGED <<quicksort_ties, perfect_profile, driver_name_map, num_laps,
                   simulated_df, lap_multipliers, positions_df, podium_df, done, rerun_df, renamed_run, positions_again,
                   frame_vars, telemetry_vars>>

\* get_race_prediction calls generate_simulated_race(perfect_profile, names, num_laps)
generate_simulated_race ==
    /\ pc = "idle"
    /\ \E profile \in ProfileMaps, names \in NameMaps, n \in (0 - 1)..MaxLaps :
          /\ Len(profile) * LapCount(n) <= MaxSimRows
          /\ LET rows == Len(profile) * LapCount(n)
             IN \E draws \in DrawSeqs([k \in 1..rows |-> ScaleOf(profile, k, n)]) :
                   /\ simulated_df' = GenerateSimulatedRace(profile, names, n, draws)
                   /\ lap_multipliers' = [k \in 1..rows |-> LapMultiplier(LapOf(k, n), n)]
          /\ perfect_profile' = profile
          /\ driver_name_map' = names
          /\ num_laps' = n
    /\ pc' = "simulated"
    /\ UNCHANGED <<quicksort_ties, positions_df, podium_df, raised, done, history_vars,
                   rerun_df, renamed_run, positions_again,
                   frame_vars, telemetry_vars>>

\* a caller hands generate_simulated_race a profile map of its own, with a std_dev
\* that np.std never gives: negative or NaN
generate_from_given_profile ==
    /\ pc = "idle"
    /\ \E profile \in GivenProfileMaps, names \in NameMaps, n \in (0 - 1)..MaxLaps :
          /\ Len(profile) * LapCount(n) <= MaxSimRows
          /\ LET rows == Len(profile) * LapCount(n)
             IN IF GenerateRaises(profile, n) # "none"
                THEN /\ simulated_df' = EmptyFrame
                     /\ lap_multipliers' = <<>>
                ELSE \E draws \in DrawSeqs([k \in 1..rows |-> ScaleOf(profile, k, n)]) :
                        /\ simulated_df' = GenerateSimulatedRace(profile, names, n, draws)
                        /\ lap_multipliers' =
                              [k \in 1..rows |-> LapMultiplier(LapOf(k, n), n)]
          /\ raised' = GenerateRaises(profile, n)
          /\ perfect_profile' = profile
          /\ driver_name_map' = names
          /\ num_laps' = n
    /\ pc' = "simulated from given profile"
    /\ UNCHANGED <<quicksort_ties, positions_df, podium_df, done, history_vars, rerun_df, renamed_run, positions_again,
                   frame_vars, telemetry_vars>>

\* generate_simulated_race is called once more with the same arguments; the draws
\* come from wherever the global np.random state is by then
generate_again ==
    /\ pc = "simulated"
    /\ "rerun" \notin done
    /\ Len(simulated_df.rows) <= MaxRerunRows
    /\ LET rows == Len(perfect_profile) * LapCount(num_laps)
       IN \E draws \in DrawSeqs([k \in 1..rows |-> ScaleOf(perfect_profile, k, num_laps)]) :
             rerun_df' = GenerateSimulatedRace(perfect_profile, driver_name_map,
                                               num_laps, draws)
    /\ done' = done \cup {"rerun"}
    /\ UNCHANGED <<pc, quicksort_ties, perfect_profile, driver_name_map, num_laps,
                   simulated_df, lap_multipliers, positions_df, podium_df, raised,
                   history_vars, renamed_run, positions_again, frame_vars, telemetry_vars>>

\* a caller hands the ranking functions a lap table of its own
supply_laps ==
    /\ pc = "idle"
    /\ \E k \in 0..MaxTableRows, names \in NameMaps :
          \E rows \in [1..k -> TableRows] :
             /\ simulated_df' = [columns |-> SimColumns, rows |-> rows]
             /\ driver_name_map' = names
    /\ pc' = "supplied"
    /\ UNCHANGED <<quicksort_ties, perfect_profile, num_laps, lap_multipliers,
                   positions_df, podium_df, raised, done, history_vars, rerun_df, renamed_run, positions_again,
                   frame_vars, telemetry_vars>>

calculate_race_positions ==
    /\ pc \in {"simulated", "supplied"}
    /\ "positions" \notin done
    /\ LET r == CalculateRacePositions(simulated_df)
       IN /\ positions_df' = r.value
          /\ raised' = r.raised
    /\ simulated_df' = FrameAfterPositions(simulated_df)
    /\ done' = done \cup {"positions"}
    /\ UNCHANGED <<pc, quicksort_ties, perfect_profile, driver_name_map, num_laps,
                   lap_multipliers, podium_df, history_vars, rerun_df, renamed_run, positions_again,
                   frame_vars, telemetry_vars>>

predict_podium ==
    /\ pc \in {"simulated", "supplied"}
    /\ "podium" \notin done
    /\ podium_df' = PredictPodium(simulated_df, driver_name_map)
    /\ done' = done \cup {"podium"}
    /\ UNCHANGED <<pc, quicksort_ties, perfect_profile, driver_name_map, num_laps,
                   simulated_df, lap_multipliers, positions_df, raised, history_vars,
                   rerun_df, renamed_run, positions_again,
                   frame_vars, telemetry_vars>>

\* the history as a source gives it that is not consistent about the type of
\* driver_number
fetch_mixed_history ==
    /\ pc = "idle"
    /\ \E k \in 1..MaxHistoryLaps :
          \E laps \in [1..k -> MixedHistoryLaps] :
             /\ SeasonContiguous(laps)
             /\ historical_races' = GroupSeasons(laps)
    /\ pc' = "fetched mixed ids"
    /\ UNCHANGED <<quicksort_ties, perfect_profile, driver_name_map, num_laps, raised,
                   simulated_df, lap_multipliers, positions_df, podium_df, done, rerun_df,
                   renamed_run, positions_again, frame_vars, telemetry_vars,
                   profile_result, weights_applied>>

\* the same race once more, with the same draws and another driver_name_map:
\* generate_simulated_race, calculate_race_positions and predict_podium
generate_with_other_names ==
    /\ pc = "simulated"
    /\ {"positions", "podium"} \subseteq done
    /\ "renamed" \notin done
    /\ Len(simulated_df.rows) <= MaxRerunRows
    /\ LET rows == Len(perfect_profile) * LapCount(num_laps)
       IN \E names \in OtherNameMaps :
          \E draws \in DrawSeqs([k \in 1..rows |-> ScaleOf(perfect_profile, k, num_laps)]) :
             /\ names # driver_name_map
             /\ simulated_df = GenerateSimulatedRace(perfect_profile, driver_name_map,
                                                     num_laps, draws)
             /\ LET df == GenerateSimulatedRace(perfect_profile, names, num_laps, draws)
                IN renamed_run' =
                      [names        |-> names,
                       simulated_df |-> df,
                       positions_df |-> CalculateRacePositions(df).value,
                       podium_df    |-> PredictPodium(df, names)]
    /\ done' = done \cup {"renamed"}
    /\ UNCHANGED <<pc, quicksort_ties, perfect_profile, driver_name_map, num_laps,
                   simulated_df, lap_multipliers, positions_df, podium_df, raised,
                   history_vars, rerun_df, positions_again, frame_vars, telemetry_vars>>

\* calculate_race_positions is called a second time on the same table
calculate_again ==
    /\ pc \in {"simulated", "supplied"}
    /\ "positions" \in done
    /\ "positions again" \notin done
    /\ LET r == CalculateRacePositions(simulated_df)
       IN /\ positions_again' = r.value
          /\ raised' = r.raised
    /\ simulated_df' = FrameAfterPositions(simulated_df)
    /\ done' = done \cup {"positions again"}
    /\ UNCHANGED <<pc, quicksort_ties, perfect_profile, driver_name_map, num_laps,
                   lap_multipliers, positions_df, podium_df, history_vars, rerun_df,
                   renamed_run, frame_vars, telemetry_vars>>

\* preprocess_race_frames(drivers_data, sample_rate) on a telemetry set with at
\* least one driver and a sample_rate of at least 1
preprocess_race_frames ==
    /\ pc = "idle"
    /\ \E k \in 1..Len(FrameDrivers), rate \in 1..MaxSampleRate :
          \E telemetry \in [1..k -> Telemetries(MaxPoints)] :
             LET data == [i \in 1..k |->
                             [driver_num |-> FrameDrivers[i].driver_num,
                              code       |-> FrameDrivers[i].code,
                              telemetry  |-> telemetry[i]]]
                 r == PreprocessRaceFrames(data, rate)
             IN /\ drivers_data' = data
                /\ sample_rate' = rate
                /\ frames' = r.frames
                /\ num_frames' = r.num_frames
    /\ pc' = "frames"
    /\ UNCHANGED <<quicksort_ties, race_vars, telemetry_vars>>

\* the server starts: warm_cache starts the warm-up thread, requests are taken
warm_cache ==
    /\ pc = "idle"
    /\ pc' = "serving"
    /\ UNCHANGED <<quicksort_ties, race_vars, frame_vars, telemetry_vars>>

\* the warm-up thread calls get_animation_telemetry for its next session
warm_session ==
    /\ pc = "serving"
    /\ threads["warm-up"].at = "outside"
    /\ warmed < Len(sessions_to_warm)
    /\ threads' = [threads EXCEPT !["warm-up"] =
                      [at |-> "check cache", session_key |-> sessions_to_warm[warmed + 1],
                       response |-> None]]
    /\ warmed' = warmed + 1
    /\ UNCHANGED <<pc, quicksort_ties, race_vars, frame_vars, telemetry_cache, calls>>

\* a request GET /api/animation-telemetry/{session_key} is given to the handler
request_telemetry ==
    /\ pc = "serving"
    /\ threads["handler"].at = "outside"
    /\ calls < MaxRequests
    /\ \E k \in SessionKeys :
          threads' = [threads EXCEPT !["handler"] =
                         [at |-> "check cache", session_key |-> k, response |-> None]]
    /\ calls' = calls + 1
    /\ UNCHANGED <<pc, quicksort_ties, race_vars, frame_vars, telemetry_cache, warmed>>

\* cached_data = _get_cached_telemetry(session_key); a hit is returned
check_cache ==
    /\ pc = "serving"
    /\ \E t \in Threads :
          /\ threads[t].at = "check cache"
          /\ LET cached_data == GetCachedTelemetry(telemetry_cache, threads[t].session_key)
             IN threads' = [threads EXCEPT ![t] =
                               IF cached_data # None
                               THEN [@ EXCEPT !.at = "outside", !.response = cached_data]
                               ELSE [@ EXCEPT !.at = "load"]]
    /\ UNCHANGED <<pc, quicksort_ties, race_vars, frame_vars, telemetry_cache, warmed,
                   calls>>

\* the body after a miss: a key outside the mapping returns the empty result; else
\* session.load runs and the response is built, or the call returns early
load_telemetry ==
    /\ pc = "serving"
    /\ \E t \in Threads :
          /\ threads[t].at = "load"
          /\ LET k == threads[t].session_key
             IN IF k \notin MappedKeys
                THEN threads' = [threads EXCEPT ![t] =
                                    [@ EXCEPT !.at = "outside",
                                              !.response = EmptyResult(k)]]
                ELSE \E o \in LoadOutcomes(k) :
                        threads' = [threads EXCEPT ![t] =
                                       [@ EXCEPT !.at = IF o.kind = "response"
                                                        THEN "store" ELSE "outside",
                                                 !.response = o.value]]
    /\ UNCHANGED <<pc, quicksort_ties, race_vars, frame_vars, telemetry_cache, warmed, calls>>

\* _set_cached_telemetry(session_key, response); return response
store_telemetry ==
    /\ pc = "serving"
    /\ \E t \in Threads :
          /\ threads[t].at = "store"
          /\ telemetry_cache' = SetCachedTelemetry(telemetry_cache, threads[t].session_key,
                                                   threads[t].response)
          /\ threads' = [threads EXCEPT ![t] = [@ EXCEPT !.at = "outside"]]
    /\ UNCHANGED <<pc, quicksort_ties, race_vars, frame_vars, warmed, calls>>

\* the request is over (it returned, or an exception ended it): the tables are
\* dropped; after telemetry calls, the server process ends and its cache with it
finish ==
    /\ pc # "idle"
    /\ pc' = "idle"
    /\ perfect_profile' = <<>>
    /\ driver_name_map' = NoNames
    /\ num_laps' = 0
    /\ simulated_df' = EmptyFrame
    /\ lap_multipliers' = <<>>
    /\ positions_df' = EmptyFrame
    /\ podium_df' = EmptyFrame
    /\ raised' = "none"
    /\ done' = {}
    /\ historical_races' = <<>>
    /\ profile_result' = <<>>
    /\ weights_applied' = <<>>
    /\ rerun_df' = EmptyFrame
    /\ renamed_run' = NoRun
    /\ positions_again' = EmptyFrame
    /\ drivers_data' = <<>>
    /\ sample_rate' = 5
    /\ frames' = <<>>
    /\ num_frames' = 0
    /\ telemetry_cache' = [k \in SessionKeys |-> None]
    /\ threads' = [t \in Threads |-> Outside]
    /\ warmed' = 0
    /\ calls' = 0
    /\ UNCHANGED quicksort_ties

Next ==
    \/ fetch_historical_austin_races
    \/ fetch_mixed_history
    \/ build_perfect_lap_profile
    \/ build_from_damaged_history
    \/ generate_simulated_race
    \/ generate_from_given_profile
    \/ generate_again
    \/ generate_with_other_names
    \/ supply_laps
    \/ calculate_race_positions
    \/ calculate_again
    \/ predict_podium
    \/ preprocess_race_frames
    \/ warm_cache
    \/ warm_session
    \/ request_telemetry
    \/ check_cache
    \/ load_telemetry
    \/ store_telemetry
    \/ finish

Spec == Init /\ [][Next]_vars

\* the simulator alone
NextSimulation ==
    \/ generate_simulated_race
    \/ finish

SpecSimulation == Init /\ [][NextSimulation]_vars

\* the profile builder alone, on histories as they are fetched
NextProfile ==
    \/ fetch_historical_austin_races
    \/ build_perfect_lap_profile
    \/ finish

\* the builder sorts nothing: one order of ties is enough
InitProfile == Init /\ quicksort_ties = "input order"

SpecProfile == InitProfile /\ [][NextProfile]_vars

\* the profile builder on histories with a damaged season
NextDamagedHistory ==
    \/ fetch_historical_austin_races
    \/ build_from_damaged_history
    \/ finish

SpecDamagedHistory == InitProfile /\ [][NextDamagedHistory]_vars

\* the simulator on profile maps a caller wrote
NextGivenProfile ==
    \/ generate_from_given_profile
    \/ finish

SpecGivenProfile == Init /\ [][NextGivenProfile]_vars

\* the simulator called twice with the same arguments
NextRerun ==
    \/ generate_simulated_race
    \/ generate_again
    \/ finish

SpecRerun == Init /\ [][NextRerun]_vars

\* the ranking functions on lap tables of any shape
NextRanking ==
    \/ supply_laps
    \/ calculate_race_positions
    \/ predict_podium
    \/ finish

\* calculate_race_positions called twice on lap tables of any shape
NextRankingTwice ==
    \/ supply_laps
    \/ calculate_race_positions
    \/ calculate_again
    \/ finish

SpecRankingTwice == Init /\ [][NextRankingTwice]_vars

\* generate_simulated_race for a race short enough to be generated a second time
generate_short_race ==
    /\ generate_simulated_race
    /\ Len(simulated_df'.rows) <= MaxRerunRows

\* a generated race ranked, then generated and ranked with other display metadata
NextRenamed ==
    \/ generate_short_race
    \/ calculate_race_positions
    \/ predict_podium
    \/ generate_with_other_names
    \/ finish

SpecRenamed == Init /\ [][NextRenamed]_vars

\* the profile builder on histories with competitor numbers of mixed type
NextMixedIds ==
    \/ fetch_mixed_history
    \/ build_perfect_lap_profile
    \/ finish

SpecMixedIds == InitProfile /\ [][NextMixedIds]_vars

\* the frame preprocessor alone
NextFrames ==
    \/ preprocess_race_frames
    \/ finish

SpecFrames == InitProfile /\ [][NextFrames]_vars

\* the telemetry endpoint: the warm-up thread and a request handler
NextTelemetry ==
    \/ warm_cache
    \/ warm_session
    \/ request_telemetry
    \/ check_cache
    \/ load_telemetry
    \/ store_telemetry
    \/ finish

SpecTelemetry == InitProfile /\ [][NextTelemetry]_vars

SpecRanking == Init /\ [][NextRanking]_vars

-----------------------------------------------------------------------------
(* Claims about generate_simulated_race *)

Rows == simulated_df.rows
RowIds == 1..Len(simulated_df.rows)
Entries == {perfect_profile[i] : i \in 1..Len(perfect_profile)}

\* C1: every simulated lap of every competitor of the profile map lasts at least
\* that competitor's best_lap, whatever the random draw was.
C1_FloorInvariant ==
    pc = "simulated" =>
        \A e \in Entries : \A k \in RowIds :
            Rows[k].driver_number = e.driver_number => Rows[k].lap_duration >= e.best_lap

\* a first lap whose draw fell below best_lap - 0.02 * best_lap: the clamp acted
C1_Witness ==
    /\ pc = "simulated"
    /\ \E e \in Entries : \E k \in RowIds :
          /\ e.std_dev > 0
          /\ Rows[k].driver_number = e.driver_number
          /\ Rows[k].lap_number = 1
          /\ Rows[k].lap_duration = e.best_lap

\* C2: the generated table holds exactly one row per (competitor of the profile
\* map, lap in 1..num_laps), every row flagged simulated, no row of a competitor
\* without a profile entry; an empty profile map gives the empty table.
C2_OneLapPerPair ==
    pc = "simulated" =>
        /\ \A e \in Entries : \A lap \in 1..num_laps :
              Cardinality({k \in RowIds : /\ Rows[k].driver_number = e.driver_number
                                          /\ Rows[k].lap_number = lap}) = 1
        /\ \A k \in RowIds :
              /\ Rows[k].simulated = TRUE
              /\ Rows[k].lap_number \in 1..num_laps
              /\ \E e \in Entries : e.driver_number = Rows[k].driver_number
        /\ perfect_profile = <<>> => simulated_df = EmptyFrame

\* a race of two competitors over three laps has been generated
C2_Witness ==
    /\ pc = "simulated"
    /\ Len(perfect_profile) = 2
    /\ num_laps = 3
    /\ Len(Rows) = 6

\* C3: the multiplier of a lap is 1.02 on lap 1, else 1.01 on a lap after
\* num_laps - 5, else 1.0; lap 1 gets 1.02 also when num_laps <= 5 puts it in the
\* tail window. A competitor without variance shows the multiplier in its lap time.
C3_MultiplierPolicy ==
    pc = "simulated" =>
        \A k \in RowIds :
            LET lap == Rows[k].lap_number
                m == lap_multipliers[k]
            IN /\ lap = 1 => m = 102
               /\ (lap # 1 /\ lap > num_laps - 5) => m = 101
               /\ (lap # 1 /\ lap <= num_laps - 5) => m = 100
               /\ \A e \in Entries :
                     (e.driver_number = Rows[k].driver_number /\ e.std_dev = 0)
                        => Rows[k].lap_duration * 100 = e.best_lap * m

\* a race long enough to use all three multipliers
C3_Witness ==
    /\ pc = "simulated"
    /\ num_laps = 7
    /\ {lap_multipliers[k] : k \in RowIds} = {100, 101, 102}

-----------------------------------------------------------------------------
(* Claims about calculate_race_positions *)

Ranked == pc # "idle" /\ "positions" \in done /\ raised = "none"

Positions == positions_df.rows

\* the lap numbers of the lap table, its rows of one lap, and the entries of one lap
InputLaps == {Rows[k].lap_number : k \in RowIds}
LapRows(lap) == SelectSeq(Rows, LAMBDA r : r.lap_number = lap)
LapEntries(lap) == SelectSeq(Positions, LAMBDA e : e.lap_number = lap)

\* C4: the positions of a lap's K rows are exactly 1..K, each once, in ascending
\* order of lap time; position 1 has the lap's minimum lap_duration. K counts the
\* rows of that lap only, so a competitor missing from a lap changes nothing.
C4_PositionsArePermutation ==
    Ranked =>
        \A lap \in InputLaps :
            LET E == LapEntries(lap)
                K == Len(LapRows(lap))
            IN /\ Len(E) = K
               /\ {E[i].position : i \in 1..Len(E)} = 1..K
               /\ \A i, j \in 1..Len(E) :
                     E[i].position < E[j].position => E[i].lap_time <= E[j].lap_time
               /\ \A i \in 1..Len(E) :
                     E[i].position = 1 =>
                        E[i].lap_time = Min({LapRows(lap)[k].lap_duration : k \in 1..K})

\* lap 1 has two rows of different duration, the slower first; lap 2 has only one
\* competitor
C4_Witness ==
    /\ Ranked
    /\ pc = "supplied"
    /\ Len(LapRows(1)) = 2
    /\ LapRows(1)[1].lap_duration > LapRows(1)[2].lap_duration
    /\ Len(LapRows(2)) = 1

\* the competitors of the rows / entries of one lap with one lap time, in order
TiedRows(lap, t) ==
    LET R == SelectSeq(LapRows(lap), LAMBDA r : r.lap_duration = t)
    IN [i \in 1..Len(R) |-> R[i].driver_number]
TiedEntries(lap, t) ==
    LET E == SelectSeq(LapEntries(lap), LAMBDA e : e.lap_time = t)
    IN [i \in 1..Len(E) |-> E[i].driver_number]

\* C5: rows of one lap with equal lap_duration get their positions in input order.
C5_TiesKeepInputOrder ==
    Ranked =>
        \A lap \in InputLaps : \A k \in RowIds :
            TiedEntries(lap, Rows[k].lap_duration) = TiedRows(lap, Rows[k].lap_duration)

\* C6: one entry per input row, and the entries are in ascending lap_number order
\* whatever the order of the input rows.
C6_OneEntryPerRowLapsAscending ==
    Ranked =>
        /\ Len(Positions) = Len(Rows)
        /\ \A lap \in InputLaps : Len(LapEntries(lap)) = Len(LapRows(lap))
        /\ \A i, j \in 1..Len(Positions) :
              i < j => Positions[i].lap_number <= Positions[j].lap_number

-----------------------------------------------------------------------------
(* Claims about predict_podium *)

PodiumDone == pc # "idle" /\ "podium" \in done

Podium == podium_df.rows

\* the rows of the lap table on its last lap
FinalRowIds == {k \in RowIds : \A j \in RowIds : Rows[j].lap_number <= Rows[k].lap_number}

\* C7: the podium has at most 3 entries, labelled P1, P2, P3 in that order, and
\* their final-lap times ascend.
C7_PodiumOrdered ==
    PodiumDone =>
        /\ Len(Podium) <= 3
        /\ \A i \in 1..Len(Podium) : Podium[i].Position = <<"P1", "P2", "P3">>[i]
        /\ \A i, j \in 1..Len(Podium) :
              i < j => Podium[i].FinalLapTime <= Podium[j].FinalLapTime

\* a podium of three with different final-lap times, taken from a last lap whose
\* rows came slowest first
C7_Witness ==
    /\ PodiumDone
    /\ Len(Podium) = 3
    /\ Podium[1].FinalLapTime < Podium[3].FinalLapTime
    /\ \E k \in FinalRowIds : \E j \in FinalRowIds :
          k < j /\ Rows[k].lap_duration > Rows[j].lap_duration

\* C8: on a non-empty table the podium is made of min(3, K) different rows of the
\* last lap, K the number of rows on it, and no row of that lap left out is faster
\* than a row taken; the podium is empty exactly when the table is empty.
C8_PodiumFromFinalLap ==
    PodiumDone =>
        /\ Len(Podium) = 0 <=> IsEmpty(simulated_df)
        /\ ~IsEmpty(simulated_df) =>
              /\ Len(Podium) = (IF Cardinality(FinalRowIds) < 3
                                THEN Cardinality(FinalRowIds) ELSE 3)
              /\ \E f \in [1..Len(Podium) -> FinalRowIds] :
                    /\ \A i, j \in 1..Len(Podium) : i # j => f[i] # f[j]
                    /\ \A i \in 1..Len(Podium) :
                          /\ Podium[i].DriverNum = Str(Rows[f[i]].driver_number)
                          /\ Podium[i].FinalLapTime = Format3f(Rows[f[i]].lap_duration)
                    /\ \A k \in FinalRowIds \ {f[i] : i \in 1..Len(Podium)} :
                          \A i \in 1..Len(Podium) :
                             Rows[k].lap_duration >= Rows[f[i]].lap_duration

\* four rows on the last lap, one of them slower than the rest: three are taken
C8_Witness ==
    /\ PodiumDone
    /\ Cardinality(FinalRowIds) = 4
    /\ Len(Podium) = 3
    /\ \E k \in FinalRowIds : Format3f(Rows[k].lap_duration) > Podium[3].FinalLapTime

\* C9: the best lap of a podium entry is the minimum lap_duration over all rows of
\* its competitor, whatever the type of the identifier, so it is a time and it is
\* at most the entry's final-lap time.
C9_BestLapIsCompetitorMinimum ==
    PodiumDone =>
        \A i \in 1..Len(Podium) :
            /\ \E k \in FinalRowIds :
                  /\ Podium[i].DriverNum = Str(Rows[k].driver_number)
                  /\ Podium[i].FinalLapTime = Format3f(Rows[k].lap_duration)
                  /\ Podium[i].BestLap =
                        Format3f(Min({Rows[j].lap_duration :
                            j \in {r \in RowIds :
                                      Rows[r].driver_number = Rows[k].driver_number}}))
            /\ Podium[i].BestLap # NaN
            /\ Podium[i].BestLap <= Podium[i].FinalLapTime

\* C10: on an empty lap table both ranking functions return an empty result and
\* neither raises.
C10_EmptyInEmptyOut ==
    (pc # "idle" /\ IsEmpty(simulated_df)) =>
        /\ "positions" \in done => (raised = "none" /\ positions_df.rows = <<>>)
        /\ "podium" \in done => podium_df.rows = <<>>

-----------------------------------------------------------------------------
(* Claims about build_perfect_lap_profile *)

Profiled == pc = "profiled" /\ raised = "none"

ProfileIds == 1..Len(profile_result)

\* the lap records of the history, as (season, row) places, that have a duration
\* and belong to the competitor of a profile key
TimedLaps(key) ==
    {pl \in UNION {{<<s, i>> : i \in 1..Len(historical_races[s].laps.rows)} :
                      s \in 1..Len(historical_races)} :
        LET r == historical_races[pl[1]].laps.rows[pl[2]]
        IN r.lap_duration # NaN /\ Str(r.driver_number) = key}

RawDuration(pl) == historical_races[pl[1]].laps.rows[pl[2]].lap_duration
SeasonOf(pl) == historical_races[pl[1]].year

\* C11: best_lap of a profile is the minimum of the competitor's raw durations
\* over all seasons, so it is at most each of them, whatever the season weights
\* and the order of the seasons.
C11_BestLapIsRawMinimum ==
    Profiled =>
        \A p \in ProfileIds :
            LET laps == TimedLaps(profile_result[p].driver_number)
            IN /\ \E pl \in laps : profile_result[p].best_lap = RawDuration(pl)
               /\ \A pl \in laps : profile_result[p].best_lap <= RawDuration(pl)

\* the competitor's fastest lap is in the season processed last, which is an
\* older season than the one processed first
C11_Witness ==
    /\ Profiled
    /\ Len(historical_races) = 2
    /\ historical_races[1].year = 2025
    /\ historical_races[2].year = 2022
    /\ \E p \in ProfileIds :
          /\ \E pl \in TimedLaps(profile_result[p].driver_number) :
                pl[1] = 1 /\ RawDuration(pl) > profile_result[p].best_lap
          /\ \E pl \in TimedLaps(profile_result[p].driver_number) :
                pl[1] = 2 /\ RawDuration(pl) = profile_result[p].best_lap

\* the history without its lap records of null duration
WithoutNullLaps(historical) ==
    [s \in 1..Len(historical) |->
        [historical[s] EXCEPT !.laps.rows =
            SelectSeq(@, LAMBDA r : r.lap_duration # NaN)]]

\* C12: lap records of null duration change no profile: the result is the result
\* on the history with those records removed.
C12_NullLapsIgnored ==
    Profiled =>
        profile_result = BuildPerfectLapProfile(WithoutNullLaps(historical_races)).value

\* a competitor with a null lap and a timed lap in the same season
C12_Witness ==
    /\ Profiled
    /\ \E s \in 1..Len(historical_races) :
          \E i, j \in 1..Len(historical_races[s].laps.rows) :
             LET rows == historical_races[s].laps.rows
             IN /\ rows[i].lap_duration = NaN
                /\ rows[j].lap_duration # NaN
                /\ rows[i].driver_number = rows[j].driver_number

\* the competitors of the history, timed or not
HistoryIds ==
    UNION {{historical_races[s].laps.rows[i].driver_number :
               i \in 1..Len(historical_races[s].laps.rows)} :
              s \in 1..Len(historical_races)}

\* C13: a competitor has a profile exactly when it has a lap with a duration in
\* some season; no profile holds default statistics.
C13_ProfileIffTimedLap ==
    Profiled =>
        /\ \A d \in HistoryIds :
              (\E p \in ProfileIds : profile_result[p].driver_number = Str(d))
                 <=> TimedLaps(Str(d)) # {}
        /\ \A p \in ProfileIds :
              /\ TimedLaps(profile_result[p].driver_number) # {}
              /\ profile_result[p].best_lap # Inf
              /\ profile_result[p].best_lap > 0
              /\ profile_result[p].races_count >= 1
        /\ \A p, q \in ProfileIds :
              p # q => profile_result[p].driver_number # profile_result[q].driver_number

\* one competitor has only null laps, another has a timed lap: one profile
C13_Witness ==
    /\ Profiled
    /\ Len(profile_result) = 1
    /\ \E d \in HistoryIds : TimedLaps(Str(d)) = {}

\* the recency weight of a season as the table states it, 1.0 when absent
TableWeight(year) ==
    IF year = 2023 THEN 1 ELSE IF year = 2024 THEN 2 ELSE IF year = 2025 THEN 3 ELSE 1

WeightedSample(pl) == RawDuration(pl) * TableWeight(SeasonOf(pl))

RECURSIVE SumOver(_)
SumOver(laps) ==
    IF laps = {} THEN 0
    ELSE LET pl == CHOOSE x \in laps : TRUE
         IN WeightedSample(pl) + SumOver(laps \ {pl})

\* the k-th smallest weighted sample of a competitor
KthSample(laps, k) ==
    LET values == {WeightedSample(pl) : pl \in laps}
    IN CHOOSE v \in values :
          /\ Cardinality({pl \in laps : WeightedSample(pl) < v}) < k
          /\ Cardinality({pl \in laps : WeightedSample(pl) <= v}) >= k

\* C14: average_lap and median_lap are the mean and the median of the multiset of
\* duration * weight(season) over all timed laps of the competitor.
C14_WeightedMeanAndMedian ==
    Profiled =>
        \A p \in ProfileIds :
            LET laps == TimedLaps(profile_result[p].driver_number)
                n == Cardinality(laps)
                avg == profile_result[p].average_lap
                med == profile_result[p].median_lap
            IN /\ avg.num * n = SumOver(laps) * avg.den
               /\ med.num * 2 =
                     (KthSample(laps, (n + 1) \div 2) + KthSample(laps, (n \div 2) + 1))
                        * med.den

\* a competitor with timed laps in 2022 (default weight) and in 2025 (weight 3)
C14_Witness ==
    /\ Profiled
    /\ \E p \in ProfileIds :
          LET laps == TimedLaps(profile_result[p].driver_number)
          IN /\ \E pl \in laps : SeasonOf(pl) = 2022
             /\ \E pl \in laps : SeasonOf(pl) = 2025
             /\ Cardinality(laps) = 3

WeightIds == 1..Len(weights_applied)

\* C15: of two seasons the earlier always gets the lower weight, the seasons
\* absent from the table included.
C15_WeightsStrictlyIncreasing ==
    pc = "profiled" =>
        \A i, j \in WeightIds :
            weights_applied[i].year < weights_applied[j].year
               => weights_applied[i].weight < weights_applied[j].weight

\* C15 as amended: over the seasons 2022..2025 the weight never decreases with the
\* season and the latest season processed has the highest weight; it increases
\* strictly between seasons of the table (2023, 2024, 2025), while 2022, absent
\* from the table, gets the default 1.0, the weight of 2023.
C15_WeightsNonDecreasing ==
    pc = "profiled" =>
        /\ \A i, j \in WeightIds :
              weights_applied[i].year < weights_applied[j].year
                 => /\ weights_applied[i].weight <= weights_applied[j].weight
                    /\ weights_applied[i].year >= 2023
                          => weights_applied[i].weight < weights_applied[j].weight
        /\ \A i \in WeightIds :
              weights_applied[i].year = 2022 => weights_applied[i].weight = 1

\* the seasons 2022 and 2023 were both processed
C15_Witness ==
    /\ pc = "profiled"
    /\ \E i, j \in WeightIds :
          weights_applied[i].year = 2022 /\ weights_applied[j].year = 2023

\* C16: races_count is the number of distinct seasons in which the competitor has
\* a timed lap.
C16_RacesCountIsSeasons ==
    Profiled =>
        \A p \in ProfileIds :
            profile_result[p].races_count =
                Cardinality({SeasonOf(pl) :
                                pl \in TimedLaps(profile_result[p].driver_number)})

\* a competitor with two timed laps in one season and one in another
C16_Witness ==
    /\ Profiled
    /\ \E p \in ProfileIds :
          /\ Cardinality(TimedLaps(profile_result[p].driver_number)) = 3
          /\ profile_result[p].races_count = 2

\* the seasons of a history that can be read
ReadableSeasons(historical) == SelectSeq(historical, LAMBDA rd : ~SeasonRaises(rd))

\* C17: a season whose data is missing or malformed is skipped, and the call
\* returns the profiles of the other seasons.
C17_BadSeasonSkipped ==
    pc = "profiled from damaged history" =>
        /\ raised = "none"
        /\ profile_result =
              BuildPerfectLapProfile(ReadableSeasons(historical_races)).value

-----------------------------------------------------------------------------
(* Claims about the parameters and the randomness of generate_simulated_race *)

\* C18: with a non-empty profile map and num_laps <= 0 the call ends with an
\* error, never with a result.
C18_NonPositiveLapsRaise ==
    (pc = "simulated" /\ perfect_profile # <<>> /\ num_laps <= 0) => raised # "none"

\* C19: a profile whose std_dev is negative or NaN makes the call end with an
\* error, and no lap of that profile is emitted.
C19_InvalidStdDevRaises ==
    (pc = "simulated from given profile" /\ num_laps >= 1) =>
        /\ raised # "none"
        /\ \A e \in Entries : \A k \in RowIds :
              (e.std_dev = NaN \/ e.std_dev < 0)
                 => Rows[k].driver_number # e.driver_number

\* C20: two runs with the same profiles, the same num_laps and the same seed (the
\* code has no seed parameter, so: no seed) give the same lap table.
C20_SameArgumentsSameTable ==
    (pc = "simulated" /\ "rerun" \in done) => rerun_df = simulated_df

\* the rows of a lap table without the display name
WithoutNames(df) ==
    [i \in 1..Len(df.rows) |->
        [driver_number |-> df.rows[i].driver_number,
         lap_number    |-> df.rows[i].lap_number,
         lap_duration  |-> df.rows[i].lap_duration,
         simulated     |-> df.rows[i].simulated]]

\* the rows of a podium without the joined name and team
WithoutMetadata(df) ==
    [i \in 1..Len(df.rows) |->
        [Position     |-> df.rows[i].Position,
         DriverNum    |-> df.rows[i].DriverNum,
         BestLap      |-> df.rows[i].BestLap,
         FinalLapTime |-> df.rows[i].FinalLapTime]]

Renamed == pc = "simulated" /\ "renamed" \in done

\* C21: the same profiles and draws with another driver_name_map give the same lap
\* numbers, lap durations, positions and podium order; only names and teams differ.
C21_NamesDoNotAffectComputation ==
    Renamed =>
        /\ renamed_run.simulated_df.columns = simulated_df.columns
        /\ WithoutNames(renamed_run.simulated_df) = WithoutNames(simulated_df)
        /\ renamed_run.positions_df = positions_df
        /\ renamed_run.podium_df.columns = podium_df.columns
        /\ WithoutMetadata(renamed_run.podium_df) = WithoutMetadata(podium_df)

\* two competitors on the podium, and the other map changes a name in both tables
C21_Witness ==
    /\ Renamed
    /\ Len(podium_df.rows) = 2
    /\ \E i \in RowIds :
          renamed_run.simulated_df.rows[i].driver_name # Rows[i].driver_name
    /\ \E i \in 1..2 :
          /\ renamed_run.podium_df.rows[i].Driver # podium_df.rows[i].Driver
          /\ renamed_run.podium_df.rows[i].Team # podium_df.rows[i].Team

-----------------------------------------------------------------------------
(* Claims about repeated calls and scenarios *)

Scenario ==
    /\ pc = "simulated"
    /\ Len(perfect_profile) = 1
    /\ perfect_profile[1].best_lap = 900000
    /\ num_laps = 3

\* lap 1 of the scenario: 91.8 plus the jitter, at least 90.0
ScenarioFirstLap ==
    /\ lap_multipliers[1] = 102
    /\ Rows[1].lap_number = 1
    /\ Rows[1].lap_duration >= 900000
    /\ \E v \in NormalDraws(0, ScaleOf(perfect_profile, 1, 3)) :
          Rows[1].lap_duration = IF 918000 + v < 900000 THEN 900000 ELSE 918000 + v

\* C23: in the scenario lap 1 is generated with multiplier 1.02 (91.8 plus jitter,
\* clamped to at least 90.0) and lap 2 with multiplier 1.0.
C23_ScenarioSecondLapPlain ==
    Scenario => (ScenarioFirstLap /\ Rows[2].lap_number = 2 /\ lap_multipliers[2] = 100)

\* C23 as amended: in the scenario lap 1 is generated with multiplier 1.02 (91.8
\* plus jitter, clamped to at least 90.0); laps 2 and 3 are generated with
\* multiplier 1.01, because with num_laps = 3 every lap is above num_laps - 5.
C23_ScenarioSecondLapTail ==
    Scenario =>
        /\ ScenarioFirstLap
        /\ Rows[2].lap_number = 2 /\ lap_multipliers[2] = 101
        /\ Rows[3].lap_number = 3 /\ lap_multipliers[3] = 101

\* the scenario with a jitter that takes lap 1 below best_lap: the clamp acts
C23_Witness ==
    /\ Scenario
    /\ perfect_profile[1].std_dev > 0
    /\ Rows[1].lap_duration = 900000
    /\ Rows[2].lap_duration > 900000

\* the profile of the competitor of a row
ProfileOfRow(k) == CHOOSE e \in Entries : e.driver_number = Rows[k].driver_number

\* C24: with std_dev = 0 every lap lasts best_lap times the lap multiplier exactly,
\* so two competitors with the same best_lap and std_dev = 0 have the same time on
\* every lap.
C24_ZeroStdDevIsExact ==
    pc = "simulated" =>
        /\ \A k \in RowIds :
              ProfileOfRow(k).std_dev = 0
                 => Rows[k].lap_duration * 100
                       = ProfileOfRow(k).best_lap * lap_multipliers[k]
        /\ \A k, m \in RowIds :
              (/\ Rows[k].lap_number = Rows[m].lap_number
               /\ ProfileOfRow(k).std_dev = 0
               /\ ProfileOfRow(m).std_dev = 0
               /\ ProfileOfRow(k).best_lap = ProfileOfRow(m).best_lap)
                 => Rows[k].lap_duration = Rows[m].lap_duration

\* two competitors with the same best_lap and std_dev = 0, over three laps
C24_Witness ==
    /\ pc = "simulated"
    /\ num_laps = 3
    /\ Len(perfect_profile) = 2
    /\ perfect_profile[1].std_dev = 0
    /\ perfect_profile[2].std_dev = 0
    /\ perfect_profile[1].best_lap = perfect_profile[2].best_lap
    /\ Len(Rows) = 6

-----------------------------------------------------------------------------
(* Claims about the telemetry endpoint and the frame preprocessor *)

\* the responses of a session that were built: those a thread is about to store,
\* and the one in the cache
BuiltResponses(k) ==
    Cardinality({t \in Threads : threads[t].at = "store" /\ threads[t].session_key = k})
       + (IF telemetry_cache[k] # None THEN 1 ELSE 0)

\* C25: over every interleaving of the warm-up thread and a request handler, the
\* telemetry of a session is loaded into a response at most once.
C25_LoadedAtMostOnce == \A k \in MappedKeys : BuiltResponses(k) <= 1

\* the driver entry of a frame, as a set (empty when the driver is not in the frame)
EntriesOf(frame, driver_num) ==
    {i \in 1..Len(frame) : frame[i].driver_num = driver_num}

DataIds == 1..Len(drivers_data)

\* C26: for at least one driver and sample_rate >= 1 the frame list is as long as
\* the frame count, which is floor(longest telemetry / sample_rate); every frame has
\* one entry for every driver with telemetry, taken at the frame's point or, past
\* the end of the driver's telemetry, at its last point.
C26_FramesCoverEveryDriver ==
    pc = "frames" =>
        /\ Len(frames) = num_frames
        /\ \E i \in DataIds :
              /\ \A j \in DataIds : Len(drivers_data[j].telemetry)
                                       <= Len(drivers_data[i].telemetry)
              /\ num_frames * sample_rate <= Len(drivers_data[i].telemetry)
              /\ Len(drivers_data[i].telemetry) < (num_frames + 1) * sample_rate
        /\ \A f \in 1..Len(frames) : \A i \in DataIds :
              LET telemetry == drivers_data[i].telemetry
                  at == (f - 1) * sample_rate
                  entries == EntriesOf(frames[f], drivers_data[i].driver_num)
              IN IF telemetry = <<>> THEN entries = {}
                 ELSE /\ Cardinality(entries) = 1
                      /\ \A e \in entries :
                            /\ frames[f][e].code = drivers_data[i].code
                            /\ frames[f][e].x =
                                  IF at < Len(telemetry) THEN telemetry[at + 1].x
                                  ELSE telemetry[Len(telemetry)].x

\* two drivers, the second with less telemetry than the frames cover: it is held
\* at its last point, which differs from the point before
C26_Witness ==
    /\ pc = "frames"
    /\ Len(drivers_data) = 2
    /\ num_frames = 3
    /\ sample_rate = 1
    /\ Len(drivers_data[2].telemetry) = 2
    /\ drivers_data[2].telemetry[1].x # drivers_data[2].telemetry[2].x
    /\ Len(frames[3]) = 2

-----------------------------------------------------------------------------
(* Further claims about build_perfect_lap_profile and the ranking *)

BothRanked ==
    /\ pc \in {"simulated", "supplied"}
    /\ {"positions", "podium"} \subseteq done
    /\ raised = "none"
    /\ Rows # <<>>

\* the rows of the maximum lap
MaxLapRows == {i \in RowIds : \A j \in RowIds : Rows[j].lap_number <= Rows[i].lap_number}

\* C28: the competitor at podium rank r is the competitor that
\* calculate_race_positions puts at position r of the maximum lap, ties included.
C28_PodiumAgreesWithPositions ==
    BothRanked =>
        /\ Len(podium_df.rows) <= 3
        /\ \A r \in 1..3 :
              r <= Cardinality(MaxLapRows) =>
                 /\ r <= Len(podium_df.rows)
                 /\ \E i \in MaxLapRows : \E e \in 1..Len(positions_df.rows) :
                       /\ positions_df.rows[e].lap_number = Rows[i].lap_number
                       /\ positions_df.rows[e].position = r
                       /\ podium_df.rows[r].DriverNum
                             = Str(positions_df.rows[e].driver_number)

\* two competitors tie on the final lap, which is not the only lap, and the sort
\* of this build does not keep tied rows in input order
C28_Witness ==
    /\ BothRanked
    /\ quicksort_ties = "reversed"
    /\ \E i, j \in MaxLapRows :
          /\ i # j
          /\ Rows[i].lap_duration = Rows[j].lap_duration
          /\ Rows[i].driver_number # Rows[j].driver_number
    /\ \E i \in RowIds : i \notin MaxLapRows

\* the lap records with a duration of one accumulated driver_number
TimedLapsOf(d) ==
    {pl \in UNION {{<<s, i>> : i \in 1..Len(historical_races[s].laps.rows)} :
                      s \in 1..Len(historical_races)} :
        LET r == historical_races[pl[1]].laps.rows[pl[2]]
        IN r.lap_duration # NaN /\ r.driver_number = d}

\* the driver_number values that got an accumulator
Accumulated == {d \in HistoryIds : TimedLapsOf(d) # {}}

\* C29: there is one profile per accumulated driver_number, and it counts all
\* seasons of that competitor: no profile is overwritten by another accumulator's.
C29_OneProfilePerAccumulator ==
    (pc = "profiled mixed ids" /\ raised = "none") =>
        /\ Len(profile_result) = Cardinality(Accumulated)
        /\ \A d \in Accumulated :
              \E p \in ProfileIds :
                 /\ profile_result[p].driver_number = Str(d)
                 /\ profile_result[p].races_count
                       = Cardinality({SeasonOf(pl) : pl \in TimedLapsOf(d)})

\* C30: the cache only holds complete responses: a call that returns the empty
\* result or an error leaves the cache as it was, and an entry of the cache is
\* never replaced by another value or removed.
C30_CacheOnlyGainsCompleteResponses ==
    [][pc' = "serving" =>
          /\ \A k \in SessionKeys :
                /\ telemetry_cache[k] # None => telemetry_cache'[k] = telemetry_cache[k]
                /\ telemetry_cache'[k] # EmptyResult(k)
                /\ telemetry_cache'[k] # ErrorResponse
          /\ \A t \in Threads :
                (/\ threads[t].at # "outside"
                 /\ threads'[t].at = "outside"
                 /\ threads'[t].response \in {EmptyResult(threads[t].session_key),
                                              ErrorResponse})
                   => telemetry_cache' = telemetry_cache]_vars

=============================================================================
